---- MODULE Spec2Model ----
(***************************************************************************)
(* Model of the Author/Post validation service: the @validates rules of    *)
(* server/models.py, the request handlers of server/app.py and the SQLite  *)
(* tables behind them.                                                     *)
(*                                                                         *)
(* Python values are tagged records: None, Str(s), IntV(n).  A string the  *)
(* code looks into (name, phone number, title, category) is the tuple of   *)
(* its characters, so "in" and the phone regular expression are computed   *)
(* on the characters; content and summary, of which the code takes only    *)
(* len() and truth, are strings.  The created_at and updated_at columns    *)
(* are left out: no handler reads or compares them.                        *)
(***************************************************************************)
EXTENDS Integers, Sequences, FiniteSets, TLC

VARIABLES
    authors,       \* the rows of table authors
    posts,         \* the rows of table posts
    foreign_keys,  \* SQLite's foreign_keys setting on the app's connections
    req,           \* the write requests: handler position, locals, response
    lastGet,       \* the response of the GET handler that ran last
    candidate,     \* the value handed to validate_phone_number on its own
    verdict        \* what validate_phone_number made of it

vars == <<authors, posts, foreign_keys, req, lastGet, candidate, verdict>>

(***************************************************************************)
(* Bounds of the model.                                                    *)
(***************************************************************************)
\* Number of write requests (POST /authors, POST /posts) served, all of
\* which may be in flight at once.
MaxRequests == 2

\* GET /authors/<id> and GET /posts/<id> are tried for ids 1..MaxGetId.
MaxGetId == 2

\* Longest phone-number candidate given to validate_phone_number.
MaxPhoneLen == 11

(***************************************************************************)
(* Program constants.                                                      *)
(***************************************************************************)
MinContentLen == 250
MaxSummaryLen == 250
PhoneDigits == 10

(***************************************************************************)
(* Python values.                                                          *)
(***************************************************************************)
None == [t |-> "none", v |-> <<>>]
Str(s) == [t |-> "str", v |-> s]
IntV(n) == [t |-> "int", v |-> <<n>>]

\* bool(x) of a string or None: "not x" is ~Truthy(x).
Truthy(x) == x.t # "none" /\ Len(x.v) > 0

\* "sub in s" for two strings.
Contains(sub, s) ==
    \E i \in 1..(Len(s) - Len(sub) + 1) : SubSeq(s, i, i + Len(sub) - 1) = sub

\* c * n: the string of n copies of the character c.
RECURSIVE Repeat(_, _)
Repeat(c, n) ==
    IF n = 0 THEN ""
    ELSE IF n % 2 = 0 THEN LET half == Repeat(c, n \div 2) IN half \o half
    ELSE c \o Repeat(c, n - 1)

\* What \d matches among the characters the model uses.
IsDigit(c) == c \in {"0", "1", "2", "3", "4", "5", "6", "7", "8", "9"}

\* re.match(r'\d{n}', s) from position i: the position after n digits, or 0.
RECURSIVE match_digits(_, _, _)
match_digits(s, i, n) ==
    IF n = 0 THEN i
    ELSE IF i > Len(s) \/ ~IsDigit(s[i]) THEN 0
    ELSE match_digits(s, i + 1, n - 1)

\* re.fullmatch(r'\d{10}', s): the ten digits must end the string.
fullmatch_d10(s) == match_digits(s, 1, PhoneDigits) = Len(s) + 1

\* re.match(r'\d{10}', s): a prefix of ten digits is enough.
match_d10(s) == match_digits(s, 1, PhoneDigits) # 0

(***************************************************************************)
(* The validators.  Each returns [exc, msg, value]: exc = "none" and the   *)
(* value to assign, or the exception raised and its message.               *)
(***************************************************************************)
Accept(v) == [exc |-> "none", msg |-> "", value |-> v]
Raise(e, m) == [exc |-> e, msg |-> m, value |-> None]

MsgName == "Author must have a name."
MsgPhone == "Phone number must be exactly ten digits."
MsgContent == "Post content must be at least 250 characters long."
MsgSummary == "Post summary cannot exceed 250 characters."
MsgCategory == "Post category must be 'Fiction' or 'Non-Fiction'."
MsgTitle == "Post title must contain one of: 'Won't Believe', 'Secret', 'Top', 'Guess'."
MsgNoneNotIterable == "argument of type 'NoneType' is not iterable"

validate_name_none_only(name) ==
    IF name.t = "none" THEN Raise("ValueError", MsgName) ELSE Accept(name)

validate_name(name) ==
    IF ~Truthy(name) THEN Raise("ValueError", MsgName) ELSE Accept(name)

validate_phone_number_prefix(phone_number) ==
    IF phone_number.t = "none" THEN Accept(phone_number)
    ELSE IF ~match_d10(phone_number.v) THEN Raise("ValueError", MsgPhone)
    ELSE Accept(phone_number)

validate_phone_number(phone_number) ==
    IF phone_number.t = "none" THEN Accept(phone_number)
    ELSE IF ~fullmatch_d10(phone_number.v) THEN Raise("ValueError", MsgPhone)
    ELSE Accept(phone_number)

validate_content_off_by_one(content) ==
    IF ~Truthy(content) \/ Len(content.v) < MinContentLen - 1
    THEN Raise("ValueError", MsgContent)
    ELSE Accept(content)

validate_content(content) ==
    IF ~Truthy(content) \/ Len(content.v) < MinContentLen
    THEN Raise("ValueError", MsgContent)
    ELSE Accept(content)

validate_summary(summary) ==
    IF Truthy(summary) /\ Len(summary.v) > MaxSummaryLen
    THEN Raise("ValueError", MsgSummary)
    ELSE Accept(summary)

Fiction == <<"F", "i", "c", "t", "i", "o", "n">>
NonFiction == <<"N", "o", "n", "-">> \o Fiction

validate_category(category) ==
    IF category \notin {Str(Fiction), Str(NonFiction)}
    THEN Raise("ValueError", MsgCategory)
    ELSE Accept(category)

clickbait_keywords ==
    << <<"W", "o", "n", "'", "t", " ", "B", "e", "l", "i", "e", "v", "e">>,
       <<"S", "e", "c", "r", "e", "t">>,
       <<"T", "o", "p">>,
       <<"G", "u", "e", "s", "s">> >>

\* "keyword in title" raises TypeError when title is None.
validate_title(title) ==
    IF title.t = "none" THEN Raise("TypeError", MsgNoneNotIterable)
    ELSE IF ~(\E k \in 1..Len(clickbait_keywords) :
                  Contains(clickbait_keywords[k], title.v))
    THEN Raise("ValueError", MsgTitle)
    ELSE Accept(title)

(***************************************************************************)
(* Entity construction: the declarative constructor assigns the keyword    *)
(* arguments in order and each assignment runs the field's validator; the  *)
(* first exception aborts the construction.                                *)
(***************************************************************************)
AuthorFields == <<"name", "phone_number">>
PostFields == <<"title", "content", "summary", "category", "author_id">>

FieldsOf(kind) == IF kind = "author" THEN AuthorFields ELSE PostFields

\* data.get(key): None for a key the payload does not carry.
data_get(data, key) == IF key \in DOMAIN data THEN data[key] ELSE None

\* The @validates hook of a column; author_id has none.
validate(key, value) ==
    CASE key = "name" -> validate_name(value)
      [] key = "phone_number" -> validate_phone_number(value)
      [] key = "title" -> validate_title(value)
      [] key = "content" -> validate_content(value)
      [] key = "summary" -> validate_summary(value)
      [] key = "category" -> validate_category(value)
      [] OTHER -> Accept(value)

NoEntity == <<>>

RECURSIVE assign_fields(_, _, _, _)
assign_fields(fields, data, i, obj) ==
    IF i > Len(fields) THEN [exc |-> "none", msg |-> "", obj |-> obj]
    ELSE LET r == validate(fields[i], data_get(data, fields[i]))
         IN  IF r.exc # "none"
             THEN [exc |-> r.exc, msg |-> r.msg, obj |-> NoEntity]
             ELSE assign_fields(fields, data, i + 1,
                                [obj EXCEPT ![fields[i]] = r.value])

\* Construction that skips the validators.
construct_unvalidated(kind, data) ==
    [exc |-> "none", msg |-> "",
     obj |-> [k \in {FieldsOf(kind)[i] : i \in 1..Len(FieldsOf(kind))} |->
                  data_get(data, k)]]

\* Author(name=..., phone_number=...) and Post(title=..., ...).
construct(kind, data) ==
    assign_fields(FieldsOf(kind), data, 1,
                  [k \in {FieldsOf(kind)[i] : i \in 1..Len(FieldsOf(kind))} |-> None])

(***************************************************************************)
(* The tables.  A row is the record of its columns.                        *)
(***************************************************************************)
Ids(rows) == {row.id : row \in rows}

\* The rowid SQLite gives to the next INSERT.
next_id(rows) ==
    IF rows = {} THEN 1
    ELSE (CHOOSE m \in Ids(rows) : \A n \in Ids(rows) : n <= m) + 1

\* INSERT INTO authors that lets a duplicate name in.
insert_author_no_unique(rows, obj) ==
    IF obj.name.t = "none"
    THEN [ok |-> FALSE, rows |-> rows, id |-> 0]
    ELSE [ok |-> TRUE,
          rows |-> rows \cup {[id |-> next_id(rows), name |-> obj.name,
                               phone_number |-> obj.phone_number]},
          id |-> next_id(rows)]

\* INSERT INTO authors that leaves the row behind when it fails.
insert_author_partial(rows, obj) ==
    IF obj.name.t = "none" \/ \E row \in rows : row.name = obj.name
    THEN [ok |-> FALSE,
          rows |-> rows \cup {[id |-> next_id(rows), name |-> obj.name,
                               phone_number |-> obj.phone_number]},
          id |-> 0]
    ELSE [ok |-> TRUE,
          rows |-> rows \cup {[id |-> next_id(rows), name |-> obj.name,
                               phone_number |-> obj.phone_number]},
          id |-> next_id(rows)]

\* INSERT INTO authors: name is NOT NULL and UNIQUE.
insert_author(rows, obj) ==
    IF obj.name.t = "none" \/ \E row \in rows : row.name = obj.name
    THEN [ok |-> FALSE, rows |-> rows, id |-> 0]
    ELSE [ok |-> TRUE,
          rows |-> rows \cup {[id |-> next_id(rows), name |-> obj.name,
                               phone_number |-> obj.phone_number]},
          id |-> next_id(rows)]

\* INSERT INTO posts: title and author_id are NOT NULL; the foreign key on
\* author_id is enforced only when the connection has foreign_keys on.
insert_post(rows, author_rows, fk, obj) ==
    IF \/ obj.title.t = "none"
       \/ obj.author_id.t = "none"
       \/ fk /\ obj.author_id \notin {IntV(n) : n \in Ids(author_rows)}
    THEN [ok |-> FALSE, rows |-> rows, id |-> 0]
    ELSE [ok |-> TRUE,
          rows |-> rows \cup {[id |-> next_id(rows), title |-> obj.title,
                               content |-> obj.content, summary |-> obj.summary,
                               category |-> obj.category,
                               author_id |-> obj.author_id]},
          id |-> next_id(rows)]

\* Model.query.get(id): the set of rows with that primary key (empty: None).
query_get(rows, id) == {row \in rows : row.id = id}

(***************************************************************************)
(* to_dict(): the columns, and the relationship on the other table with    *)
(* its back-reference cut ('-posts.author', '-author.posts').              *)
(***************************************************************************)
RECURSIVE sorted_by_id(_)
sorted_by_id(rows) ==
    IF rows = {} THEN <<>>
    ELSE LET first == CHOOSE row \in rows : \A o \in rows : row.id <= o.id
         IN  <<first>> \o sorted_by_id(rows \ {first})

post_columns(row) ==
    [id |-> IntV(row.id), title |-> row.title, content |-> row.content,
     summary |-> row.summary, category |-> row.category,
     author_id |-> row.author_id]

author_columns(row) ==
    [id |-> IntV(row.id), name |-> row.name, phone_number |-> row.phone_number]

\* author.posts, serialized: the author's posts in primary-key order, each
\* without its author.
posts_of(row, post_rows) ==
    LET mine == sorted_by_id({q \in post_rows : q.author_id = IntV(row.id)})
    IN  [i \in 1..Len(mine) |-> post_columns(mine[i])]

author_to_dict(row, post_rows) ==
    [id |-> IntV(row.id), name |-> row.name, phone_number |-> row.phone_number,
     posts |-> posts_of(row, post_rows)]

post_to_dict(row, author_rows) ==
    [id |-> IntV(row.id), title |-> row.title, content |-> row.content,
     summary |-> row.summary, category |-> row.category,
     author_id |-> row.author_id,
     author |-> LET owner == {a \in author_rows : IntV(a.id) = row.author_id}
                IN  IF owner = {} THEN None
                    ELSE author_columns(CHOOSE a \in owner : TRUE)]

(***************************************************************************)
(* Request payloads the clients send.                                      *)
(***************************************************************************)
Ann == Str(<<"A", "n", "n">>)
Bob == Str(<<"B", "o", "b">>)
Phone5551234567 == Str(<<"5", "5", "5", "1", "2", "3", "4", "5", "6", "7">>)
Phone555123456 == Str(<<"5", "5", "5", "1", "2", "3", "4", "5", "6">>)
TopTenSecrets ==
    Str(<<"T", "o", "p", " ", "1", "0", " ", "S", "e", "c", "r", "e", "t", "s">>)
ANiceDay == Str(<<"A", " ", "N", "i", "c", "e", " ", "D", "a", "y">>)
SciFi == Str(<<"S", "c", "i", "-", "F", "i">>)
LongContent == Str(Repeat("x", MinContentLen))
ShortContent == Str(Repeat("x", MinContentLen - 1))
FullSummary == Str(Repeat("s", MaxSummaryLen))
LongSummary == Str(Repeat("s", MaxSummaryLen + 1))

\* The empty JSON object.
EmptyPayload == <<>>

AuthorPayloads ==
    { [name |-> Ann, phone_number |-> Phone5551234567],
      [name |-> Ann],
      [name |-> Bob, phone_number |-> None],
      [name |-> Ann, phone_number |-> Phone555123456],
      [name |-> Str(<<>>), phone_number |-> Phone5551234567],
      [phone_number |-> Phone555123456],
      EmptyPayload }

ValidPost(aid) ==
    [title |-> TopTenSecrets, content |-> LongContent, summary |-> FullSummary,
     category |-> Str(Fiction), author_id |-> aid]

PostPayloads ==
    { ValidPost(IntV(1)),
      [title |-> TopTenSecrets, content |-> LongContent,
       category |-> Str(NonFiction), author_id |-> IntV(2)],
      [title |-> TopTenSecrets, content |-> LongContent, summary |-> Str(""),
       category |-> Str(Fiction)],
      [content |-> LongContent, summary |-> FullSummary,
       category |-> Str(Fiction), author_id |-> IntV(1)],
      [ValidPost(IntV(1)) EXCEPT !.title = ANiceDay],
      [ValidPost(IntV(1)) EXCEPT !.content = ShortContent],
      [ValidPost(IntV(1)) EXCEPT !.summary = LongSummary],
      [ValidPost(IntV(1)) EXCEPT !.category = SciFi],
      [summary |-> LongSummary, author_id |-> IntV(1)],
      [title |-> TopTenSecrets, summary |-> LongSummary, author_id |-> IntV(1)],
      [title |-> ANiceDay, content |-> ShortContent, summary |-> LongSummary,
       category |-> SciFi, author_id |-> IntV(1)],
      EmptyPayload }

Payloads(kind) == IF kind = "author" THEN AuthorPayloads ELSE PostPayloads

(***************************************************************************)
(* The request handlers.  A write request r is the record req[r]; pc is    *)
(* the handler's position, session the objects pending in its database     *)
(* session, new_id the primary key of its object once inserted (0: none).  *)
(***************************************************************************)
Requests == 1..MaxRequests

NewRequest ==
    [pc |-> "idle", kind |-> "", data |-> EmptyPayload, entity |-> NoEntity,
     session |-> {}, new_id |-> 0, commits |-> 0, rollbacks |-> 0,
     status |-> 0, error |-> "", body |-> <<>>]

\* lastGet is the response of a GET handler on its way to the client.  A
\* GET handler is one step; the model looks at one GET response at a time,
\* and the write requests go on once it is delivered.
NoGet == [kind |-> "", id |-> 0, status |-> 0, error |-> <<>>, body |-> <<>>]

NotRun == [exc |-> "notrun", msg |-> "", value |-> None]

MsgNoInput == "No input data provided."
MsgDuplicate == "Author with this name already exists."
MsgBadAuthor == "Failed to create post. Ensure author_id is valid."

\* return make_response(jsonify({"error": message}), code): the handler
\* returns and its local object is gone.
respond_error(r, code, message) ==
    [r EXCEPT !.pc = "responded", !.status = code, !.error = message,
              !.body = [error |-> message], !.entity = NoEntity]

\* db.session.rollback(): the pending objects are dropped.
rollback(r) ==
    [r EXCEPT !.session = {}, !.rollbacks = @ + 1]

\* The except clause that catches the exception exc.
except_status(exc) == IF exc = "ValueError" THEN 400 ELSE 500

\* The app opens sqlite:///app.db and never issues PRAGMA foreign_keys, so
\* whether the ForeignKey of posts.author_id is enforced is the default of
\* the SQLite library it runs on: off in a stock build, on in one compiled
\* with SQLITE_DEFAULT_FOREIGN_KEYS=1.
Init ==
    /\ authors = {}
    /\ posts = {}
    /\ foreign_keys \in BOOLEAN
    /\ req = [r \in Requests |-> NewRequest]
    /\ lastGet = NoGet
    /\ candidate = None
    /\ verdict = NotRun

\* A POST /authors or POST /posts request reaches its handler.  Requests
\* are numbered in the order they arrive.  Parsing and construction touch
\* nothing but the request's own objects, so their interleavings with other
\* requests all commute: a request arrives once the one before it is past
\* them, and requests overlap from db.session.commit() on.
Receive(r) ==
    /\ lastGet = NoGet
    /\ req[r].pc = "idle"
    /\ IF r = 1 THEN TRUE
       ELSE req[r - 1].pc \in {"constructed", "persisted", "responded"}
    /\ \E kind \in {"author", "post"} : \E data \in Payloads(kind) :
          req' = [req EXCEPT ![r] =
                     [@ EXCEPT !.pc = "received", !.kind = kind, !.data = data]]
    /\ UNCHANGED <<lastGet, authors, posts, foreign_keys, candidate, verdict>>

\* data = request.get_json(); if not data: return bad_request(...)
Parse(r) ==
    /\ lastGet = NoGet
    /\ req[r].pc = "received"
    /\ req' = [req EXCEPT ![r] =
                  IF DOMAIN req[r].data = {}
                  THEN respond_error(@, 400, MsgNoInput)
                  ELSE [@ EXCEPT !.pc = "parsed"]]
    /\ UNCHANGED <<lastGet, authors, posts, foreign_keys, candidate, verdict>>

\* new = Model(...); db.session.add(new), with the except clauses a
\* validator's exception reaches.
Construct(r) ==
    /\ lastGet = NoGet
    /\ req[r].pc = "parsed"
    /\ LET c == construct(req[r].kind, req[r].data)
       IN  req' = [req EXCEPT ![r] =
                      IF c.exc = "none"
                      THEN [@ EXCEPT !.pc = "constructed", !.entity = c.obj,
                                     !.session = {c.obj}]
                      ELSE respond_error(rollback(@), except_status(c.exc), c.msg)]
    /\ UNCHANGED <<lastGet, authors, posts, foreign_keys, candidate, verdict>>

\* db.session.commit() of create_author, with its IntegrityError clause.
CommitAuthor(r) ==
    /\ lastGet = NoGet
    /\ req[r].pc = "constructed"
    /\ req[r].kind = "author"
    /\ LET ins == insert_author(authors, req[r].entity)
       IN  /\ authors' = ins.rows
           /\ req' = [req EXCEPT ![r] =
                         IF ins.ok
                         THEN [@ EXCEPT !.pc = "persisted", !.session = {},
                                        !.new_id = ins.id, !.commits = @ + 1]
                         ELSE respond_error(
                                  rollback([@ EXCEPT !.commits = @ + 1]),
                                  400, MsgDuplicate)]
    /\ UNCHANGED <<lastGet, posts, foreign_keys, candidate, verdict>>

\* db.session.commit() of create_post, with its IntegrityError clause.
CommitPost(r) ==
    /\ lastGet = NoGet
    /\ req[r].pc = "constructed"
    /\ req[r].kind = "post"
    /\ LET ins == insert_post(posts, authors, foreign_keys, req[r].entity)
       IN  /\ posts' = ins.rows
           /\ req' = [req EXCEPT ![r] =
                         IF ins.ok
                         THEN [@ EXCEPT !.pc = "persisted", !.session = {},
                                        !.new_id = ins.id, !.commits = @ + 1]
                         ELSE respond_error(
                                  rollback([@ EXCEPT !.commits = @ + 1]),
                                  400, MsgBadAuthor)]
    /\ UNCHANGED <<lastGet, authors, foreign_keys, candidate, verdict>>

\* return make_response(jsonify(new.to_dict()), 201): the object, expired
\* by the commit, is read back from its row.
Respond(r) ==
    /\ lastGet = NoGet
    /\ req[r].pc = "persisted"
    /\ LET row == CHOOSE x \in query_get(IF req[r].kind = "author"
                                         THEN authors ELSE posts,
                                         req[r].new_id) : TRUE
       IN  req' = [req EXCEPT ![r] =
                      [@ EXCEPT !.pc = "responded", !.status = 201,
                                !.entity = NoEntity,
                                !.body = IF req[r].kind = "author"
                                         THEN author_to_dict(row, posts)
                                         ELSE post_to_dict(row, authors)]]
    /\ UNCHANGED <<lastGet, authors, posts, foreign_keys, candidate, verdict>>

\* A get_author_by_id that answers 200 for every id.
get_author_by_id_always_found(id) ==
    [kind |-> "author", id |-> id, status |-> 200, error |-> <<>>,
     body |-> IF query_get(authors, id) = {} THEN <<>>
              ELSE author_to_dict(CHOOSE x \in query_get(authors, id) : TRUE,
                                  posts)]

\* GET /authors/<int:id>
get_author_by_id(id) ==
    IF query_get(authors, id) = {}
    THEN [kind |-> "author", id |-> id, status |-> 404,
          error |-> <<"Author with id ", id, " not found.">>, body |-> <<>>]
    ELSE [kind |-> "author", id |-> id, status |-> 200, error |-> <<>>,
          body |-> author_to_dict(CHOOSE x \in query_get(authors, id) : TRUE,
                                  posts)]

\* GET /posts/<int:id>
get_post_by_id(id) ==
    IF query_get(posts, id) = {}
    THEN [kind |-> "post", id |-> id, status |-> 404,
          error |-> <<"Post with id ", id, " not found.">>, body |-> <<>>]
    ELSE [kind |-> "post", id |-> id, status |-> 200, error |-> <<>>,
          body |-> post_to_dict(CHOOSE x \in query_get(posts, id) : TRUE,
                                authors)]

GetAuthor(id) ==
    /\ lastGet = NoGet
    /\ lastGet' = get_author_by_id(id)
    /\ UNCHANGED <<authors, posts, foreign_keys, req, candidate, verdict>>

GetPost(id) ==
    /\ lastGet = NoGet
    /\ lastGet' = get_post_by_id(id)
    /\ UNCHANGED <<authors, posts, foreign_keys, req, candidate, verdict>>

\* The GET response reaches the client.
Deliver ==
    /\ lastGet # NoGet
    /\ lastGet' = NoGet
    /\ UNCHANGED <<authors, posts, foreign_keys, req, candidate, verdict>>

Next ==
    \/ \E r \in Requests : Receive(r)
    \/ \E r \in Requests : Parse(r)
    \/ \E r \in Requests : Construct(r)
    \/ \E r \in Requests : CommitAuthor(r)
    \/ \E r \in Requests : CommitPost(r)
    \/ \E r \in Requests : Respond(r)
    \/ \E id \in 1..MaxGetId : GetAuthor(id)
    \/ \E id \in 1..MaxGetId : GetPost(id)
    \/ Deliver

Spec == Init /\ [][Next]_vars

(***************************************************************************)
(* The phone-number rule on its own: validate_phone_number applied to one  *)
(* candidate value.                                                        *)
(***************************************************************************)
OddChars == {"-", "a", " ", "\n"}

\* "1234567890" repeated to length n, with position k (if any) holding c.
PhoneString(n, k, c) ==
    [i \in 1..n |-> IF i = k THEN c
                    ELSE <<"1", "2", "3", "4", "5", "6", "7", "8", "9", "0">>[((i - 1) % 10) + 1]]

Phone555_123_4567 ==
    Str(<<"5", "5", "5", "-", "1", "2", "3", "-", "4", "5", "6", "7">>)

PhoneCandidates ==
    {None, Phone5551234567, Phone555123456, Phone555_123_4567}
    \cup {Str(PhoneString(n, 0, "0")) : n \in 0..MaxPhoneLen}
    \cup {Str(PhoneString(n, k, c)) :
              n \in 1..MaxPhoneLen, k \in 1..MaxPhoneLen, c \in OddChars}

InitPhone ==
    /\ authors = {}
    /\ posts = {}
    /\ foreign_keys = FALSE
    /\ req = [r \in Requests |-> NewRequest]
    /\ lastGet = NoGet
    /\ candidate \in PhoneCandidates
    /\ verdict = NotRun

ApplyPhoneRule ==
    /\ verdict = NotRun
    /\ verdict' = validate_phone_number(candidate)
    /\ UNCHANGED <<authors, posts, foreign_keys, req, lastGet, candidate>>

SpecPhone == InitPhone /\ [][ApplyPhoneRule]_vars

(***************************************************************************)
(* The field rules as the specification states them, used by the           *)
(* properties below.                                                       *)
(***************************************************************************)
DecimalDigits == {"0", "1", "2", "3", "4", "5", "6", "7", "8", "9"}

TenDigits(x) ==
    /\ x.t = "str"
    /\ Len(x.v) = 10
    /\ \A i \in 1..Len(x.v) : x.v[i] \in DecimalDigits

Markers ==
    { <<"W", "o", "n", "'", "t", " ", "B", "e", "l", "i", "e", "v", "e">>,
      <<"S", "e", "c", "r", "e", "t">>, <<"T", "o", "p">>,
      <<"G", "u", "e", "s", "s">> }

HasMarker(x) ==
    /\ x.t = "str"
    /\ \E m \in Markers : \E i \in 1..Len(x.v) :
          /\ i + Len(m) - 1 <= Len(x.v)
          /\ \A j \in 1..Len(m) : x.v[i + j - 1] = m[j]

\* The rule of the field rejects the value.
Rejects(key, x) ==
    CASE key = "name" -> x.t = "none" \/ Len(x.v) = 0
      [] key = "phone_number" -> x.t # "none" /\ ~TenDigits(x)
      [] key = "title" -> ~HasMarker(x)
      [] key = "content" -> x.t = "none" \/ Len(x.v) < 250
      [] key = "summary" -> x.t # "none" /\ Len(x.v) > 250
      [] key = "category" -> x \notin {Str(Fiction), Str(NonFiction)}
      [] OTHER -> FALSE

RuleMessage(key) ==
    CASE key = "name" -> MsgName
      [] key = "phone_number" -> MsgPhone
      [] key = "title" -> MsgTitle
      [] key = "content" -> MsgContent
      [] key = "summary" -> MsgSummary
      [] key = "category" -> MsgCategory
      [] OTHER -> ""

\* The positions, in assignment order, of the fields of r's payload that
\* their rules reject.
RejectedFields(r) ==
    {i \in 1..Len(FieldsOf(r.kind)) :
        Rejects(FieldsOf(r.kind)[i], data_get(r.data, FieldsOf(r.kind)[i]))}

HasPayload(r) == r.pc # "idle" /\ DOMAIN r.data # {}

\* r is a write request all of whose fields pass their rules.
ValidRequest(r) == HasPayload(r) /\ RejectedFields(r) = {}

Responded(r) == r.pc = "responded"

\* The row is the one built from the payload of r.
RowOf(r, row) ==
    /\ row.id = r.new_id
    /\ \A i \in 1..Len(FieldsOf(r.kind)) :
          row[FieldsOf(r.kind)[i]] = data_get(r.data, FieldsOf(r.kind)[i])

Table(kind) == IF kind = "author" THEN authors ELSE posts

(***************************************************************************)
(* C1: write atomicity.  The tables change only in the commit step of one  *)
(* request, which adds exactly one row, the one built from that request's  *)
(* payload; a request answered 201 has that row in its table; a request    *)
(* answered with an error answers 400 or 500, changed neither table in any *)
(* of its steps (it never inserted: new_id = 0) and leaves nothing pending *)
(* in its session.                                                         *)
(***************************************************************************)
C1_CommitAddsOneRow(r) ==
    /\ req[r].pc = "constructed"
    /\ req'[r].pc = "persisted"
    /\ \E row \in Table(req[r].kind)' \ Table(req[r].kind) :
          /\ Table(req[r].kind)' = Table(req[r].kind) \cup {row}
          /\ RowOf(req'[r], row)
    /\ IF req[r].kind = "author" THEN posts' = posts ELSE authors' = authors

C1_Answer(r) ==
    (Responded(req'[r]) /\ ~Responded(req[r])) =>
        IF req'[r].status = 201
        THEN /\ req[r].pc = "persisted"
             /\ authors' = authors /\ posts' = posts
             /\ \E row \in Table(req[r].kind) : RowOf(req[r], row)
        ELSE /\ req'[r].status \in {400, 500}
             /\ authors' = authors /\ posts' = posts
             /\ req'[r].new_id = 0
             /\ req'[r].session = {}

C1_Step ==
    /\ (authors' # authors \/ posts' # posts) =>
           \E r \in Requests : C1_CommitAddsOneRow(r)
    /\ \A r \in Requests : C1_Answer(r)
    /\ \A r \in Requests : req[r].pc = "persisted" => req'[r].status \in {0, 201}

\* C1: every step is a step of an atomic write: the tables change by one
\* committed row or not at all, and an error answer leaves nothing behind.
C1_WriteAtomicity == [][C1_Step]_vars

\* A commit has failed and been rolled back, and another has succeeded.
C1_Witness ==
    \E r, q \in Requests :
        /\ Responded(req[r]) /\ req[r].status = 400 /\ req[r].commits = 1
        /\ Responded(req[q]) /\ req[q].status = 201

\* The primary keys of the persisted authors, as author_id values.
AuthorIds == {IntV(n) : n \in Ids(authors)}

(***************************************************************************)
(* C2: referential integrity of posts.  Every persisted post's author_id   *)
(* is the id of a persisted author, and a POST /posts request that passes  *)
(* the field rules with an author_id that is no author's id is answered    *)
(* 400 and inserts nothing.                                                *)
(***************************************************************************)
C2_ReferentialIntegrity ==
    /\ \A p \in posts : p.author_id \in AuthorIds
    /\ \A r \in Requests :
          (/\ Responded(req[r]) /\ req[r].kind = "post" /\ ValidRequest(req[r])
           /\ data_get(req[r].data, "author_id") \notin AuthorIds)
          => req[r].status = 400 /\ req[r].new_id = 0

\* The requests that pass the field rules and carry the name of r.
SameName(r) ==
    {q \in Requests :
        /\ req[q].kind = "author" /\ ValidRequest(req[q])
        /\ data_get(req[q].data, "name") = data_get(req[r].data, "name")}

(***************************************************************************)
(* C3: same-name author creation.  For every answered POST /authors        *)
(* request that passes the field rules: exactly one author row carries its *)
(* name; among the requests with that name that pass the rules exactly one *)
(* has inserted, the row is the one built from that request's payload, and *)
(* every other answered one got 400 "Author with this name already         *)
(* exists."; the one that inserted is answered 201.                        *)
(***************************************************************************)
C3_SameNameAuthors ==
    \A r \in Requests :
        (Responded(req[r]) /\ req[r].kind = "author" /\ ValidRequest(req[r])) =>
            LET name == data_get(req[r].data, "name")
                winners == {q \in SameName(r) : req[q].new_id # 0}
            IN  /\ Cardinality({a \in authors : a.name = name}) = 1
                /\ Cardinality(winners) = 1
                /\ \A q \in winners :
                      /\ \E a \in authors : RowOf(req[q], a)
                      /\ Responded(req[q]) => req[q].status = 201
                /\ \A q \in SameName(r) \ winners :
                      Responded(req[q]) =>
                          /\ req[q].status = 400
                          /\ req[q].error = MsgDuplicate

\* Two overlapping requests with one name: the later arrival committed
\* first, and the earlier one lost.
C3_Witness ==
    /\ MaxRequests >= 2
    /\ req[1].kind = "author" /\ req[2].kind = "author"
    /\ data_get(req[1].data, "name") = data_get(req[2].data, "name")
    /\ Responded(req[1]) /\ req[1].status = 400 /\ req[1].error = MsgDuplicate
    /\ Responded(req[2]) /\ req[2].status = 201

(***************************************************************************)
(* C4: validation failures map to 400.  Every answered write request with  *)
(* a non-empty payload in which some field is rejected by its rule is      *)
(* answered 400 with the message of a rejected field's rule.               *)
(***************************************************************************)
C4_ValidationFailureIs400 ==
    \A r \in Requests :
        (Responded(req[r]) /\ HasPayload(req[r]) /\ RejectedFields(req[r]) # {}) =>
            /\ req[r].status = 400
            /\ \E i \in RejectedFields(req[r]) :
                  req[r].body = [error |-> RuleMessage(FieldsOf(req[r].kind)[i])]

(***************************************************************************)
(* C5: persisted-post invariant.  Every persisted post has content of      *)
(* length at least 250, a summary that is absent or of length at most 250, *)
(* a category that is "Fiction" or "Non-Fiction", and a title containing   *)
(* one of the four markers.                                                *)
(***************************************************************************)
C5_PersistedPosts ==
    \A p \in posts :
        /\ p.content.t = "str" /\ Len(p.content.v) >= 250
        /\ p.summary.t = "none" \/ (p.summary.t = "str" /\ Len(p.summary.v) <= 250)
        /\ p.category \in {Str(Fiction), Str(NonFiction)}
        /\ HasMarker(p.title)

\* A post is persisted, and posts failing each rule have been refused.
C5_Witness ==
    /\ \E p \in posts : p.summary.t = "str" /\ Len(p.summary.v) = 250
    /\ \E r \in Requests :
          /\ Responded(req[r]) /\ req[r].kind = "post"
          /\ req[r].error \in {MsgContent, MsgSummary, MsgCategory, MsgTitle}

(***************************************************************************)
(* C6: persisted-author name invariant.  Every persisted author has a      *)
(* non-empty name and no two persisted authors have the same name.         *)
(***************************************************************************)
C6_PersistedAuthorNames ==
    /\ \A a \in authors : a.name.t = "str" /\ Len(a.name.v) > 0
    /\ \A a, b \in authors : a.name = b.name => a = b

\* An author is persisted, and a request without a name or with a name
\* already taken has been refused.
C6_Witness ==
    /\ authors # {}
    /\ \E r \in Requests :
          /\ Responded(req[r]) /\ req[r].kind = "author"
          /\ req[r].error \in {MsgName, MsgDuplicate}

(***************************************************************************)
(* C7: the per-request state machine.                                      *)
(***************************************************************************)
StageEdges ==
    { <<"idle", "received">>, <<"received", "parsed">>,
      <<"parsed", "constructed">>, <<"constructed", "persisted">>,
      <<"persisted", "responded">>,
      <<"received", "responded">>, <<"parsed", "responded">>,
      <<"constructed", "responded">> }

\* A request under way can always take its next step: none is left
\* without a response.
C7_Progress ==
    \A r \in Requests :
        (lastGet = NoGet /\ req[r].pc \notin {"idle", "responded"}) =>
            ENABLED (Parse(r) \/ Construct(r) \/ CommitAuthor(r)
                     \/ CommitPost(r) \/ Respond(r))

\* The stages are passed in order; the answer, once given, stands.
C7_Order(r) ==
    /\ req'[r].pc # req[r].pc => <<req[r].pc, req'[r].pc>> \in StageEdges
    /\ Responded(req[r]) => req'[r] = req[r]

\* The commit is attempted once, and only with every field accepted.
C7_Commit(r) ==
    /\ req'[r].commits \in {req[r].commits, req[r].commits + 1}
    /\ req'[r].commits # req[r].commits =>
           /\ req[r].pc = "constructed"
           /\ req[r].commits = 0
           /\ ValidRequest(req[r])

\* A success answers 201 from the persisted stage with no rollback; a
\* failure goes straight to responded with an error payload.
C7_Answer(r) ==
    (Responded(req'[r]) /\ ~Responded(req[r])) =>
        IF req[r].pc = "persisted"
        THEN req'[r].status = 201 /\ req'[r].rollbacks = 0
        ELSE /\ req'[r].status \in {400, 500}
             /\ req'[r].body = [error |-> req'[r].error]

C7_Common ==
    \A r \in Requests : C7_Order(r) /\ C7_Commit(r) /\ C7_Answer(r)

\* C7 as claimed: every failure is answered after a rollback.
C7_Original ==
    /\ []C7_Progress
    /\ [][/\ C7_Common
          /\ \A r \in Requests :
                (Responded(req'[r]) /\ ~Responded(req[r]) /\ req'[r].status # 201)
                => req'[r].rollbacks = 1]_vars

\* C7 (amended): every write request passes through received, parsed,
\* validated-and-constructed, persisted, responded in that order and is
\* answered once; the commit is attempted at most once and only after every
\* field was accepted by its rule; a failure of the construction or of the
\* commit goes directly to responded with an error payload after exactly one
\* rollback, while an empty payload is answered 400 directly from the
\* received stage, with no rollback.
C7_StateMachine ==
    /\ []C7_Progress
    /\ [][/\ C7_Common
          /\ \A r \in Requests :
                (Responded(req'[r]) /\ ~Responded(req[r]) /\ req'[r].status # 201)
                => req'[r].rollbacks = (IF req[r].pc = "received" THEN 0 ELSE 1)]_vars

\* One request went through every stage to 201 and another failed at its
\* commit, after the validation had passed.
C7_Witness ==
    \E r, q \in Requests :
        /\ Responded(req[r]) /\ req[r].status = 201 /\ req[r].commits = 1
        /\ Responded(req[q]) /\ req[q].status = 400
        /\ req[q].commits = 1 /\ req[q].rollbacks = 1

(***************************************************************************)
(* C8: the read contract and the round trip.                               *)
(***************************************************************************)
\* The answer in lastGet is that of a GET on the tables as they are.
C8_FoundIffPersisted ==
    /\ lastGet.status \in {200, 404}
    /\ lastGet.status = 200 <=> \E row \in Table(lastGet.kind) : row.id = lastGet.id
    /\ lastGet.status = 200 => lastGet.body.id = IntV(lastGet.id)

\* The POST requests answered 201 for the record lastGet asked for.
CreatedBy ==
    {r \in Requests :
        /\ Responded(req[r]) /\ req[r].status = 201
        /\ req[r].kind = lastGet.kind /\ req[r].body.id = IntV(lastGet.id)}

Columns(kind, body) ==
    [k \in {"id"} \cup {FieldsOf(kind)[i] : i \in 1..Len(FieldsOf(kind))} |-> body[k]]

\* C8 as claimed: the GET yields the same field values as the POST response.
C8_Original ==
    [][lastGet' # NoGet =>
          /\ authors' = authors /\ posts' = posts /\ req' = req
          /\ C8_FoundIffPersisted'
          /\ \A r \in CreatedBy' : lastGet'.body = req'[r].body]_vars

\* C8 (amended): GET by id answers 200 with the record iff a record with
\* that id is persisted and 404 otherwise; after a POST answered 201, a GET
\* by the returned id yields the same column values (id, name, phone_number;
\* id, title, content, summary, category, author_id) as the POST response,
\* while the nested relationship (an author's posts, a post's author) is
\* that of the tables at the time of the GET; no GET changes a table.
C8_ReadContract ==
    [][lastGet' # NoGet =>
          /\ authors' = authors /\ posts' = posts /\ req' = req
          /\ C8_FoundIffPersisted'
          /\ \A r \in CreatedBy' :
                /\ Columns(lastGet'.kind, lastGet'.body)
                       = Columns(req'[r].kind, req'[r].body)
                /\ lastGet'.kind = "author" =>
                       lastGet'.body = author_to_dict(
                           CHOOSE a \in authors' : a.id = lastGet'.id, posts')
                /\ lastGet'.kind = "post" =>
                       lastGet'.body = post_to_dict(
                           CHOOSE p \in posts' : p.id = lastGet'.id, authors')]_vars

\* An author created by a POST is read back after a post of theirs was
\* created, and a GET of an id not persisted was answered 404 before.
C8_Witness ==
    /\ lastGet.status = 200 /\ lastGet.kind = "author"
    /\ CreatedBy # {}
    /\ Len(lastGet.body.posts) = 1

(***************************************************************************)
(* C9: the phone-number rule accepts a value iff it is absent or a string  *)
(* of exactly ten decimal digits, returns an accepted value unchanged, and *)
(* rejects with its ValueError message.                                    *)
(***************************************************************************)
C9_PhoneRule ==
    verdict # NotRun =>
        /\ verdict.exc = "none" <=> (candidate = None \/ TenDigits(candidate))
        /\ verdict.exc = "none" => verdict.value = candidate
        /\ verdict.exc # "none" => verdict.exc = "ValueError" /\ verdict.msg = MsgPhone

\* "5551234567" has been accepted.
C9_Witness == verdict.exc = "none" /\ candidate = Phone5551234567

(***************************************************************************)
(* C10: first-failing-field reporting.  Every answered write request whose *)
(* payload has several rejected fields is answered with the message of the *)
(* first rejected field in assignment order, and has neither added an      *)
(* entity to its session nor attempted a commit.                           *)
(***************************************************************************)
C10_FirstFailingField ==
    \A r \in Requests :
        (/\ Responded(req[r]) /\ HasPayload(req[r])
         /\ Cardinality(RejectedFields(req[r])) >= 2) =>
            LET first == CHOOSE i \in RejectedFields(req[r]) :
                             \A j \in RejectedFields(req[r]) : i <= j
            IN  /\ req[r].error = RuleMessage(FieldsOf(req[r].kind)[first])
                /\ req[r].session = {} /\ req[r].entity = NoEntity
                /\ req[r].commits = 0 /\ req[r].new_id = 0

====
